---- MODULE Spec2Model ----
(***************************************************************************)
(* Fantasy snake draft simulator: the line parser (parsePlayerText), the   *)
(* board generator (generateSnakeDraft), the board renderer's pick number  *)
(* (DraftBoard) and the App component's state, handlers and effects.       *)
(*                                                                         *)
(* Strings are sequences of one-character strings, so that trim, split,    *)
(* endsWith and parseInt are computed character by character.              *)
(***************************************************************************)
EXTENDS Integers, Sequences, FiniteSets, TLC

\* ------------------------------------------------------------------
\* Characters and JavaScript string primitives
\* ------------------------------------------------------------------

NL == "\n"
SP == " "
STAR == "*"

\* String.prototype.trim / the \s class of a RegExp, on the characters used here.
IsWhitespace(c) == c \in {SP, NL, "\t", "\r"}

Digits == {"0", "1", "2", "3", "4", "5", "6", "7", "8", "9"}

DigitValue(c) ==
  CASE c = "0" -> 0 [] c = "1" -> 1 [] c = "2" -> 2 [] c = "3" -> 3 [] c = "4" -> 4
    [] c = "5" -> 5 [] c = "6" -> 6 [] c = "7" -> 7 [] c = "8" -> 8 [] c = "9" -> 9

DigitChar(d) ==
  CASE d = 0 -> "0" [] d = 1 -> "1" [] d = 2 -> "2" [] d = 3 -> "3" [] d = 4 -> "4"
    [] d = 5 -> "5" [] d = 6 -> "6" [] d = 7 -> "7" [] d = 8 -> "8" [] d = 9 -> "9"

RECURSIVE TrimStart(_)
TrimStart(s) ==
  IF s = <<>> THEN <<>>
  ELSE IF IsWhitespace(Head(s)) THEN TrimStart(Tail(s)) ELSE s

RECURSIVE TrimEnd(_)
TrimEnd(s) ==
  IF s = <<>> THEN <<>>
  ELSE IF IsWhitespace(s[Len(s)]) THEN TrimEnd(SubSeq(s, 1, Len(s) - 1)) ELSE s

\* s.trim()
Trim(s) == TrimEnd(TrimStart(s))

\* s.endsWith('*')
EndsWithStar(s) == s # <<>> /\ s[Len(s)] = STAR

\* s.slice(0, -1)
DropLast(s) == IF s = <<>> THEN <<>> ELSE SubSeq(s, 1, Len(s) - 1)

\* s.split(sep) for a one-character separator: cur is the piece being read.
RECURSIVE SplitOnFrom(_, _, _, _)
SplitOnFrom(s, sep, cur, acc) ==
  IF s = <<>> THEN Append(acc, cur)
  ELSE IF Head(s) = sep THEN SplitOnFrom(Tail(s), sep, <<>>, Append(acc, cur))
  ELSE SplitOnFrom(Tail(s), sep, Append(cur, Head(s)), acc)

\* s.split('\n')
SplitLines(s) == SplitOnFrom(s, NL, <<>>, <<>>)

\* s.split(/\s+/): a maximal run of whitespace is one separator; a leading
\* or trailing run leaves an empty first or last piece, and "" gives [""].
RECURSIVE SplitWsFrom(_, _, _, _)
SplitWsFrom(s, cur, acc, inRun) ==
  IF s = <<>> THEN Append(acc, cur)
  ELSE IF IsWhitespace(Head(s))
    THEN IF inRun THEN SplitWsFrom(Tail(s), cur, acc, TRUE)
         ELSE SplitWsFrom(Tail(s), <<>>, Append(acc, cur), TRUE)
  ELSE SplitWsFrom(Tail(s), Append(cur, Head(s)), acc, FALSE)

SplitWhitespace(s) == SplitWsFrom(s, <<>>, <<>>, FALSE)

\* parts.join(sep)
RECURSIVE JoinWith(_, _)
JoinWith(parts, sep) ==
  IF parts = <<>> THEN <<>>
  ELSE IF Len(parts) = 1 THEN parts[1]
  ELSE parts[1] \o sep \o JoinWith(Tail(parts), sep)

\* The longest prefix of decimal digits of s.
RECURSIVE DigitPrefix(_)
DigitPrefix(s) ==
  IF s = <<>> \/ Head(s) \notin Digits THEN <<>>
  ELSE <<Head(s)>> \o DigitPrefix(Tail(s))

RECURSIVE DigitsValue(_, _)
DigitsValue(s, acc) ==
  IF s = <<>> THEN acc ELSE DigitsValue(Tail(s), 10 * acc + DigitValue(Head(s)))

\* parseInt(s, 10): leading whitespace skipped, an optional sign, then the
\* longest run of digits; whatever follows the digits is ignored. NaN when
\* there is no digit at that place.
NaN == [isNaN |-> TRUE, value |-> 0]

ParseInt(s) ==
  LET t == TrimStart(s)
      neg == t # <<>> /\ Head(t) = "-"
      signed == t # <<>> /\ Head(t) \in {"-", "+"}
      body == IF signed THEN Tail(t) ELSE t
      ds == DigitPrefix(body)
  IN IF ds = <<>> THEN NaN
     ELSE [isNaN |-> FALSE,
           value |-> IF neg THEN 0 - DigitsValue(ds, 0) ELSE DigitsValue(ds, 0)]

\* String(n) / `${n}` for an integer n.
RECURSIVE NatToString(_)
NatToString(n) ==
  IF n < 10 THEN <<DigitChar(n)>>
  ELSE NatToString(n \div 10) \o <<DigitChar(n % 10)>>

IntToString(n) == IF n < 0 THEN <<"-">> \o NatToString(0 - n) ELSE NatToString(n)

\* ------------------------------------------------------------------
\* parsePlayerText (Controls.tsx 113-144)
\* ------------------------------------------------------------------

\* error: string | null. The two messages differ in their fixed text and
\* both end in: Problem line: "<line>".
NoError == [kind |-> "null", line |-> <<>>]
MalformedLineError(line) == [kind |-> "Malformed line detected", line |-> line]
CouldNotParseError(line) == [kind |-> "Could not parse line", line |-> line]

\* Variant of LineIsHighlighted: the line is not trimmed before the test.
LineIsHighlighted_Untrimmed(line) == EndsWithStar(line)

\* const isHighlighted = processedLine.endsWith('*')
LineIsHighlighted(line) == EndsWithStar(Trim(line))

\* Variant of ProcessedLine: the trailing marker is left on the line.
ProcessedLine_KeepsMarker(line) == Trim(line)

\* processedLine after lines 120-124: one trailing marker removed.
ProcessedLine(line) ==
  IF LineIsHighlighted(line) THEN Trim(DropLast(Trim(line))) ELSE Trim(line)

\* const parts = processedLine.split(/\s+/)
LineParts(line) == SplitWhitespace(ProcessedLine(line))

\* const rank = parseInt(parts[0], 10)
LineRank(parts) == ParseInt(parts[1])

\* const position = parts[parts.length - 1]
LinePosition(parts) == parts[Len(parts)]

\* Variant of LineName: the position token is taken into the name.
LineName_IncludesPosition(parts) == JoinWith(SubSeq(parts, 2, Len(parts)), <<SP>>)

\* const name = parts.slice(1, -1).join(' ')
LineName(parts) == JoinWith(SubSeq(parts, 2, Len(parts) - 1), <<SP>>)

\* The body of the for loop: the remaining lines and the players pushed so far.
RECURSIVE ParseLoop(_, _)
ParseLoop(lines, players) ==
  IF lines = <<>> THEN [players |-> players, error |-> NoError]
  ELSE
    LET line == Head(lines)
        parts == LineParts(line)
    IN IF Trim(line) = <<>> THEN ParseLoop(Tail(lines), players)
       ELSE IF Len(parts) < 3
         THEN [players |-> <<>>, error |-> MalformedLineError(line)]
       ELSE IF LineRank(parts).isNaN \/ LineName(parts) = <<>> \/ LinePosition(parts) = <<>>
         THEN [players |-> <<>>, error |-> CouldNotParseError(line)]
       ELSE ParseLoop(Tail(lines),
                      Append(players, [rank |-> LineRank(parts).value,
                                       name |-> LineName(parts),
                                       position |-> LinePosition(parts),
                                       isHighlighted |-> LineIsHighlighted(line)]))

parsePlayerText(text) == ParseLoop(SplitLines(Trim(text)), <<>>)

\* ------------------------------------------------------------------
\* generateSnakeDraft (Controls.tsx 146-181) and the renderer's pick number
\* ------------------------------------------------------------------

\* A slot holding null.
EmptySlot == [empty |-> TRUE]

\* Variant of NumRounds: the division rounds down.
NumRounds_RoundsDown(numPicks, numTeams) == numPicks \div numTeams

\* Math.ceil(numPicks / numTeams)
NumRounds(numPicks, numTeams) == (numPicks + numTeams - 1) \div numTeams

\* Variant of TeamIndexOf: every round runs left to right.
TeamIndexOf_NoSnake(round, pickInRound, numTeams) == pickInRound

\* const teamIndex = isForwardRound ? pickInRound : numTeams - 1 - pickInRound
TeamIndexOf(round, pickInRound, numTeams) ==
  IF round % 2 = 0 THEN pickInRound ELSE numTeams - 1 - pickInRound

\* players.forEach: rounds is 1-based here, rounds[r + 1][t + 1] is rounds[r][t].
RECURSIVE PlacePlayers(_, _, _, _)
PlacePlayers(rounds, players, index, numTeams) ==
  IF index >= Len(players) THEN rounds
  ELSE
    LET round == index \div numTeams
        pickInRound == index % numTeams
        teamIndex == TeamIndexOf(round, pickInRound, numTeams)
        placed ==
          IF round + 1 \in DOMAIN rounds /\ teamIndex < numTeams
            THEN [rounds EXCEPT ![round + 1][teamIndex + 1] = players[index + 1]]
            ELSE rounds
    IN PlacePlayers(placed, players, index + 1, numTeams)

\* DraftBoardData: an object whose keys are kept in insertion order; modelled
\* as the sequence of its entries, teamKey n standing for the key "Team n".
generateSnakeDraft(players, numTeams) ==
  IF Len(players) = 0 \/ numTeams <= 0 THEN <<>>
  ELSE
    LET numRounds == NumRounds(Len(players), numTeams)
        blank == [r \in 1..numRounds |-> [t \in 1..numTeams |-> EmptySlot]]
        rounds == PlacePlayers(blank, players, 0, numTeams)
    IN [t \in 1..numTeams |->
          [teamKey |-> t, slots |-> [r \in 1..numRounds |-> rounds[r][t]]]]

\* Variant of OverallPick: odd rounds are numbered left to right as well.
OverallPick_NoSnake(roundIndex, teamIndex, numTeams) ==
  roundIndex * numTeams + teamIndex + 1

\* DraftBoard.tsx 145-149: the pick number shown in the slot of round
\* roundIndex and column teamIndex (both 0-based).
OverallPick(roundIndex, teamIndex, numTeams) ==
  LET pickInRound == IF roundIndex % 2 = 0 THEN teamIndex ELSE numTeams - 1 - teamIndex
  IN roundIndex * numTeams + pickInRound + 1

\* Variant of IdentifierParts: the position is part of an entry.
RECURSIVE IdentifierParts_WithPosition(_)
IdentifierParts_WithPosition(players) ==
  IF players = <<>> THEN <<>>
  ELSE <<IntToString(Head(players).rank) \o <<"|">> \o Head(players).name
           \o <<"|">> \o Head(players).position>>
         \o IdentifierParts_WithPosition(Tail(players))

\* playerListIdentifier (Controls.tsx 238-240)
RECURSIVE IdentifierParts(_)
IdentifierParts(players) ==
  IF players = <<>> THEN <<>>
  ELSE <<IntToString(Head(players).rank) \o <<"|">> \o Head(players).name>>
         \o IdentifierParts(Tail(players))

playerListIdentifier(players) == JoinWith(IdentifierParts(players), <<",">>)

\* DraftBoard (DraftBoard.tsx 103-176): the cells of the grid body, one per
\* round and team key, with the player found there and the pick number shown.
BoardCells(boardData, teams) ==
  IF Len(boardData) = 0 THEN {}
  ELSE
    LET numRounds == Len(boardData[1].slots)
    IN {[roundIndex |-> r, teamIndex |-> t,
         player |-> boardData[t + 1].slots[r + 1],
         overallPick |-> OverallPick(r, t, teams)] :
           r \in 0..(numRounds - 1), t \in 0..(Len(boardData) - 1)}

\* ------------------------------------------------------------------
\* State
\* ------------------------------------------------------------------

VARIABLES
  phase,          \* "closed" before the page is loaded and after it is left, else "running"
  rawText,        \* App state: rawText
  numTeams,       \* App state: numTeams
  dataSource,     \* App state: dataSource
  pickedPlayers,  \* App state: pickedPlayers, a Set in insertion order
  error,          \* App state: error
  parsedText,     \* App: the memoized parsePlayerText(rawText)
  localStorage,   \* the three persisted entries
  boardVariant,   \* which DraftBoard the page was built with
  lastOp,         \* the handler that ran last
  lastCard,       \* the card whose pointer event ran it, if any
  draftPlayers,   \* generateSnakeDraft: the players argument
  draftTeams,     \* generateSnakeDraft: the numTeams argument
  draftBoard,     \* generateSnakeDraft: the DraftBoardData returned
  inputLines,     \* parsePlayerText: the lines of the text argument
  inputRecords,   \* parsePlayerText: the records the lines were rendered from
  inputRendered,  \* parsePlayerText: TRUE while every line is a rendered record or blank
  parsed          \* parsePlayerText: the value parsePlayerText returned

appVars == <<phase, rawText, numTeams, dataSource, pickedPlayers, error, parsedText,
             localStorage, boardVariant, lastOp, lastCard>>
boardVars == <<draftPlayers, draftTeams, draftBoard>>
parserVars == <<inputLines, inputRecords, inputRendered, parsed>>
vars == <<appVars, boardVars, parserVars>>

\* ------------------------------------------------------------------
\* Persisted entries and their encodings
\* ------------------------------------------------------------------

\* localStorage.getItem gives null for a key never written.
NoItem == [present |-> FALSE, value |-> <<>>]
Item(text) == [present |-> TRUE, value |-> text]

\* `if (saved)` / `saved || fallback`: null and "" are falsy.
Truthy(item) == item.present /\ item.value # <<>>

\* Variant of JsonStringify: the elements are written with nothing between them.
JsonStringify_NoSeparator(array) ==
  <<"[">> \o JoinWith([i \in 1..Len(array) |-> IntToString(array[i])], <<>>) \o <<"]">>

\* JSON.stringify(Array.from(set)) for a set of integers.
JsonStringify(array) ==
  <<"[">> \o JoinWith([i \in 1..Len(array) |-> IntToString(array[i])], <<",">>) \o <<"]">>

\* The whole of s is an integer literal of JSON.
IsJsonInteger(s) ==
  LET body == IF s # <<>> /\ Head(s) = "-" THEN Tail(s) ELSE s
  IN /\ body # <<>>
     /\ \A i \in 1..Len(body) : body[i] \in Digits
     /\ Len(body) > 1 => body[1] # "0"

\* JSON.parse(saved) for the arrays of integers the page writes; ok is FALSE
\* where JSON.parse throws.
JsonParse(s) ==
  IF Len(s) < 2 \/ Head(s) # "[" \/ s[Len(s)] # "]" THEN [ok |-> FALSE, value |-> <<>>]
  ELSE
    LET inner == SubSeq(s, 2, Len(s) - 1)
        items == SplitOnFrom(inner, ",", <<>>, <<>>)
    IN IF inner = <<>> THEN [ok |-> TRUE, value |-> <<>>]
       ELSE IF \A i \in 1..Len(items) : IsJsonInteger(items[i])
         THEN [ok |-> TRUE, value |-> [i \in 1..Len(items) |-> ParseInt(items[i]).value]]
       ELSE [ok |-> FALSE, value |-> <<>>]

\* Set<number>: the members in insertion order.
SetHas(set, x) == \E i \in 1..Len(set) : set[i] = x
SetAdd(set, x) == IF SetHas(set, x) THEN set ELSE Append(set, x)
SetDelete(set, x) == SelectSeq(set, LAMBDA y : y # x)

\* new Set(array)
RECURSIVE SetFrom(_, _)
SetFrom(array, set) ==
  IF array = <<>> THEN set ELSE SetFrom(Tail(array), SetAdd(set, Head(array)))

Members(set) == {set[i] : i \in 1..Len(set)}

\* ------------------------------------------------------------------
\* The board generator applied to bounded arguments
\* ------------------------------------------------------------------

MaxPlayers == 7
MaxTeams == 4

\* Rank values are unrelated to list position; the name tells players apart.
BoardRanks == {1, 2}

BoardPlayer(rank, listPosition) ==
  [rank |-> rank, name |-> <<"p">> \o NatToString(listPosition),
   position |-> <<"Q">>, isHighlighted |-> FALSE]

\* No card: the last handler was not run by a pointer event on a card.
NoCard == [roundIndex |-> 0, teamIndex |-> 0, player |-> EmptySlot, overallPick |-> 0]

\* The page not loaded and nothing persisted.
AppIdle ==
  /\ phase = "closed"
  /\ rawText = <<>>
  /\ numTeams = 0
  /\ dataSource = "Custom"
  /\ pickedPlayers = <<>>
  /\ error = NoError
  /\ parsedText = [players |-> <<>>, error |-> NoError]
  /\ localStorage = [customPlayerRankings |-> NoItem, draftedPlayerRanks |-> NoItem,
                      numTeams |-> NoItem]
  /\ boardVariant = "rank"
  /\ lastOp = "none"
  /\ lastCard = NoCard

BoardIdle ==
  /\ draftPlayers = <<>>
  /\ draftTeams = 1
  /\ draftBoard = generateSnakeDraft(<<>>, 1)

ParserIdle ==
  /\ inputLines = <<>>
  /\ inputRecords = <<>>
  /\ inputRendered = TRUE
  /\ parsed = parsePlayerText(<<>>)

BoardInit == AppIdle /\ BoardIdle /\ ParserIdle

BoardAddPlayer ==
  \E rank \in BoardRanks :
    /\ Len(draftPlayers) < MaxPlayers
    /\ draftPlayers' = Append(draftPlayers, BoardPlayer(rank, Len(draftPlayers) + 1))
    /\ draftBoard' = generateSnakeDraft(draftPlayers', draftTeams)
    /\ UNCHANGED <<draftTeams, parserVars, appVars>>

BoardSetTeams ==
  \E teams \in 0..MaxTeams :
    /\ teams # draftTeams
    /\ draftTeams' = teams
    /\ draftBoard' = generateSnakeDraft(draftPlayers, teams)
    /\ UNCHANGED <<draftPlayers, parserVars, appVars>>

BoardNext == BoardAddPlayer \/ BoardSetTeams

SpecBoard == BoardInit /\ [][BoardNext]_vars

\* The slot of round r (0-based) of team index t (0-based).
SlotAt(board, r, t) == board[t + 1].slots[r + 1]

\* C1: generateSnakeDraft stores the player at 0-based list index i in round
\* floor(i/T) of team index (i mod T) when that round is even and of team index
\* T - 1 - (i mod T) when it is odd, whatever the players' rank values are.
C1_Placement ==
  (Len(draftPlayers) >= 1 /\ draftTeams > 0) =>
    \A i \in 0..(Len(draftPlayers) - 1) :
      LET r == i \div draftTeams
          m == i % draftTeams
          t == IF r % 2 = 0 THEN m ELSE draftTeams - 1 - m
      IN /\ t + 1 \in DOMAIN draftBoard
         /\ r + 1 \in DOMAIN draftBoard[t + 1].slots
         /\ SlotAt(draftBoard, r, t) = draftPlayers[i + 1]

\* A board with an odd round in use whose ranks do not follow list order.
C1_Witness ==
  /\ draftTeams = 3
  /\ Len(draftPlayers) = 5
  /\ draftPlayers[1].rank = 2
  /\ draftPlayers[5].rank = 1
  /\ SlotAt(draftBoard, 1, 1) = draftPlayers[5]

\* C2: the pick number the renderer shows in a slot is the list position of
\* the player the generator stored there; distinct slots show distinct pick
\* numbers, each of 1..L is shown by exactly one non-empty slot, and a slot
\* whose pick number exceeds L is empty.
C2_PickNumbers ==
  (Len(draftPlayers) >= 1 /\ draftTeams > 0) =>
    LET cells == BoardCells(draftBoard, draftTeams)
        L == Len(draftPlayers)
    IN /\ \A c \in cells :
            /\ c.overallPick =
                 (IF c.roundIndex % 2 = 0
                    THEN c.roundIndex * draftTeams + c.teamIndex + 1
                    ELSE c.roundIndex * draftTeams + (draftTeams - 1 - c.teamIndex) + 1)
            /\ c.player # EmptySlot => /\ c.overallPick \in 1..L
                                       /\ c.player = draftPlayers[c.overallPick]
            /\ c.overallPick > L => c.player = EmptySlot
       /\ \A c, d \in cells :
            (c.roundIndex # d.roundIndex \/ c.teamIndex # d.teamIndex)
              => c.overallPick # d.overallPick
       /\ \A n \in 1..L :
            Cardinality({c \in cells : c.overallPick = n /\ c.player # EmptySlot}) = 1

\* A board whose last round is odd and partly empty.
C2_Witness ==
  /\ draftTeams = 3
  /\ Len(draftPlayers) = 4
  /\ \E c \in BoardCells(draftBoard, draftTeams) :
       c.roundIndex = 1 /\ c.teamIndex = 0 /\ c.overallPick = 6 /\ c.player = EmptySlot
  /\ \E c \in BoardCells(draftBoard, draftTeams) :
       c.roundIndex = 1 /\ c.teamIndex = 2 /\ c.overallPick = 4
         /\ c.player = draftPlayers[4]

\* C3: the board has exactly T teams keyed "Team 1".."Team T" in that order,
\* every team has ceil(L/T) slots, and the L players fill exactly L slots,
\* each player being in exactly one.
C3_BoardShape ==
  (Len(draftPlayers) >= 1 /\ draftTeams > 0) =>
    LET L == Len(draftPlayers)
        T == draftTeams
        ceil == CHOOSE n \in 0..L : n * T >= L /\ (n - 1) * T < L
        slots == {<<t, r>> : t \in 1..Len(draftBoard), r \in 1..ceil}
    IN /\ Len(draftBoard) = T
       /\ \A t \in 1..T : draftBoard[t].teamKey = t
       /\ \A t \in 1..T : Len(draftBoard[t].slots) = ceil
       /\ Cardinality({s \in slots : draftBoard[s[1]].slots[s[2]] # EmptySlot}) = L
       /\ \A i \in 1..L :
            Cardinality({s \in slots : draftBoard[s[1]].slots[s[2]] = draftPlayers[i]}) = 1

\* A board of three rounds whose last round is partly empty.
C3_Witness ==
  /\ draftTeams = 3
  /\ Len(draftPlayers) = 7
  /\ Len(draftBoard) = 3
  /\ Len(draftBoard[1].slots) = 3
  /\ draftBoard[2].slots[3] = EmptySlot

\* ------------------------------------------------------------------
\* The parser applied to bounded texts
\* ------------------------------------------------------------------

MaxLines == 3
MaxRecords == 2

\* Lines of one to three tokens, with and without a marker. The first token
\* is an integer, digits followed by a letter, or no number at all.
FirstTokens == {<<"1">>, <<"2", "a">>, <<"x">>}
RestTokens == {<<>>, << <<"a">> >>, << <<"a">>, <<"Q">> >>}
MarkerSuffixes == {<<>>, <<SP, STAR>>}

LinePool ==
  {JoinWith(<<first>> \o rest, <<SP>>) \o suffix :
     first \in FirstTokens, rest \in RestTokens, suffix \in MarkerSuffixes}
  \cup {<<"1", SP, "a", STAR>>, <<"1", SP, "a", SP, "Q", STAR>>, <<>>, <<SP>>}

\* Well-formed records and the ways a record is written as a line.
RecordPool ==
  {[rank |-> who[1], nameTokens |-> who[2], position |-> position,
    isHighlighted |-> isHighlighted] :
     who \in {<<12, << <<"a">> >> >>, <<0 - 3, << <<"a">>, <<"b", "c">> >> >>},
     position \in {<<"Q">>, <<"R", STAR>>},
     isHighlighted \in BOOLEAN}

RenderStyles == {"tight", "loose"}

\* <rank> <name tokens> <position> [*]
RenderRecord(rec, style) ==
  LET tokens == <<IntToString(rec.rank)>> \o rec.nameTokens \o <<rec.position>>
  IN IF style = "tight"
       THEN JoinWith(tokens, <<SP>>) \o (IF rec.isHighlighted THEN <<STAR>> ELSE <<>>)
       ELSE <<SP>> \o JoinWith(tokens, <<SP, "\t">>)
              \o (IF rec.isHighlighted THEN <<SP, SP, STAR>> ELSE <<>>) \o <<SP>>

InputText == JoinWith(inputLines, <<NL>>)

ParserInit == AppIdle /\ BoardIdle /\ ParserIdle

ParserAppendLine ==
  \E line \in LinePool :
    /\ Len(inputLines) < MaxLines
    /\ inputLines = <<>> \/ ~inputRendered
    /\ inputLines' = Append(inputLines, line)
    /\ inputRendered' = FALSE
    /\ inputRecords' = <<>>
    /\ parsed' = parsePlayerText(JoinWith(inputLines', <<NL>>))
    /\ UNCHANGED <<boardVars, appVars>>

ParserAppendRecord ==
  \E rec \in RecordPool, style \in RenderStyles :
    /\ Len(inputLines) < MaxLines
    /\ Len(inputRecords) < MaxRecords
    /\ inputRendered
    /\ inputLines' = Append(inputLines, RenderRecord(rec, style))
    /\ inputRecords' = Append(inputRecords, rec)
    /\ parsed' = parsePlayerText(JoinWith(inputLines', <<NL>>))
    /\ UNCHANGED <<inputRendered, boardVars, appVars>>

ParserAppendBlank ==
  \E blank \in {<<>>, <<SP, SP>>} :
    /\ Len(inputLines) < MaxLines
    /\ inputRendered
    /\ inputLines' = Append(inputLines, blank)
    /\ parsed' = parsePlayerText(JoinWith(inputLines', <<NL>>))
    /\ UNCHANGED <<inputRecords, inputRendered, boardVars, appVars>>

ParserNext == ParserAppendLine \/ ParserAppendRecord \/ ParserAppendBlank

SpecParser == ParserInit /\ [][ParserNext]_vars

\* ------------------------------------------------------------------
\* What the parser's contract says of a line, read off the line itself
\* ------------------------------------------------------------------

IsBlankLine(line) == \A i \in 1..Len(line) : IsWhitespace(line[i])

\* The line trimmed, one trailing marker removed.
WithoutMarker(line) ==
  LET t == Trim(line) IN IF EndsWithStar(t) THEN DropLast(t) ELSE t

\* The number of maximal runs of non-whitespace characters.
TokenCount(s) ==
  Cardinality({i \in 1..Len(s) :
                 ~IsWhitespace(s[i]) /\ (i = 1 \/ IsWhitespace(s[i - 1]))})

FirstToken(s) ==
  LET t == TrimStart(s)
      ws == {i \in 1..Len(t) : IsWhitespace(t[i])}
  IN IF ws = {} THEN t
     ELSE SubSeq(t, 1, (CHOOSE i \in ws : \A j \in ws : i <= j) - 1)

\* An optional sign followed by decimal digits and nothing else.
IsIntegerToken(token) ==
  LET body == IF token # <<>> /\ token[1] \in {"-", "+"} THEN Tail(token) ELSE token
  IN body # <<>> /\ \A i \in 1..Len(body) : body[i] \in Digits

IsShortLine(line) == ~IsBlankLine(line) /\ TokenCount(WithoutMarker(line)) < 3

TextOf(lines) == JoinWith(lines, <<NL>>)

\* The lines before line k all parse.
EarlierLinesParse(k) == parsePlayerText(TextOf(SubSeq(inputLines, 1, k - 1))).error = NoError

\* C8: a non-blank line with fewer than 3 tokens (after trimming and removing
\* one trailing marker) makes parsePlayerText return no players and an error;
\* when the lines before it parse, the error names that line, however many
\* players those lines gave, and the lines after it have no part in the result.
C8_ShortLineRejected ==
  \A k \in 1..Len(inputLines) :
    IsShortLine(inputLines[k]) =>
      /\ parsed.players = <<>>
      /\ parsed.error # NoError
      /\ EarlierLinesParse(k) =>
           /\ Trim(parsed.error.line) = Trim(inputLines[k])
           /\ k < Len(inputLines) =>
                parsed = parsePlayerText(TextOf(Append(SubSeq(inputLines, 1, k), <<"!">>)))

\* Two lines that parse, then a short line.
C8_Witness ==
  /\ Len(inputLines) = 3
  /\ ~inputRendered
  /\ parsePlayerText(TextOf(SubSeq(inputLines, 1, 2))).error = NoError
  /\ Len(parsePlayerText(TextOf(SubSeq(inputLines, 1, 2))).players) = 2
  /\ IsShortLine(inputLines[3])
  /\ LineIsHighlighted(inputLines[3])
  /\ parsed.players = <<>>
  /\ parsed.error.line = inputLines[3]

\* C9: a line of at least 3 tokens fails to parse whenever its first token is
\* not an integer, tokens that only start with digits included.
C9_NonIntegerRankRejected ==
  \A k \in 1..Len(inputLines) :
    (/\ ~IsBlankLine(inputLines[k])
     /\ TokenCount(WithoutMarker(inputLines[k])) >= 3
     /\ ~IsIntegerToken(FirstToken(inputLines[k])))
      => (parsed.players = <<>> /\ parsed.error # NoError)

\* The player a record stands for.
RecordPlayer(rec) ==
  [rank |-> rec.rank, name |-> JoinWith(rec.nameTokens, <<SP>>),
   position |-> rec.position, isHighlighted |-> rec.isHighlighted]

RecordPlayers(recs) == [i \in 1..Len(recs) |-> RecordPlayer(recs[i])]

\* C10 as stated: records written as lines, with any extra whitespace and
\* blank lines, parse back to the same rank, name, position and highlight
\* flag in the order of the lines, with no error.
C10_RoundTripAnyPosition ==
  inputRendered =>
    (parsed.error = NoError /\ parsed.players = RecordPlayers(inputRecords))

\* A position that ends in the marker character can only be told from the
\* marker when the record is highlighted.
PositionIsUnambiguous(rec) == rec.isHighlighted \/ ~EndsWithStar(rec.position)

\* C10, amended: the round trip holds for records whose position does not end
\* in `*` unless the record is highlighted.
C10_RoundTrip ==
  (inputRendered /\ \A i \in 1..Len(inputRecords) : PositionIsUnambiguous(inputRecords[i]))
    => (parsed.error = NoError /\ parsed.players = RecordPlayers(inputRecords))

\* Two records out of rank order, one highlighted, a blank line between them.
C10_Witness ==
  /\ inputRendered
  /\ Len(inputLines) = 3
  /\ Len(inputRecords) = 2
  /\ IsBlankLine(inputLines[2])
  /\ inputRecords[1].rank > inputRecords[2].rank
  /\ inputRecords[1].isHighlighted /\ ~inputRecords[2].isHighlighted
  /\ Len(inputRecords[2].nameTokens) = 2
  /\ Head(inputLines[3]) = SP
  /\ \A i \in 1..2 : PositionIsUnambiguous(inputRecords[i])
  /\ Len(parsed.players) = 2
  /\ parsed.players[1].rank = 12

\* The lines that give a player when the text parses, in order.
NonBlankLines == SelectSeq(inputLines, LAMBDA line : ~IsBlankLine(line))

HasStar(s) == \E i \in 1..Len(s) : s[i] = STAR

StarCount(s) == Cardinality({i \in 1..Len(s) : s[i] = STAR})

\* C11 as stated: in a text that parses, a line ending in `*` after trimming
\* gives a highlighted player with no `*` in its name or position, and a line
\* not ending in `*` gives a player that is not highlighted.
C11_MarkerNeverInFields ==
  parsed.error = NoError =>
    /\ Len(parsed.players) = Len(NonBlankLines)
    /\ \A i \in 1..Len(NonBlankLines) :
         IF EndsWithStar(Trim(NonBlankLines[i]))
           THEN /\ parsed.players[i].isHighlighted
                /\ ~HasStar(parsed.players[i].name)
                /\ ~HasStar(parsed.players[i].position)
           ELSE ~parsed.players[i].isHighlighted

\* C11, amended: in a text that parses, a line ending in `*` after trimming
\* gives a highlighted player, whose name and position have no `*` when that
\* final `*` is the only one of the line; a line not ending in `*` gives a
\* player that is not highlighted.
C11_MarkerStripped ==
  parsed.error = NoError =>
    /\ Len(parsed.players) = Len(NonBlankLines)
    /\ \A i \in 1..Len(NonBlankLines) :
         IF EndsWithStar(Trim(NonBlankLines[i]))
           THEN /\ parsed.players[i].isHighlighted
                /\ StarCount(NonBlankLines[i]) = 1 =>
                     (/\ ~HasStar(parsed.players[i].name)
                      /\ ~HasStar(parsed.players[i].position))
           ELSE ~parsed.players[i].isHighlighted

\* A text that parses: a line whose marker is followed by a space, a blank
\* line and a line with no marker.
C11_Witness ==
  /\ Len(inputLines) = 3
  /\ parsed.error = NoError
  /\ Len(parsed.players) = 2
  /\ inputLines[1] # <<>>
  /\ inputLines[1][Len(inputLines[1])] = SP
  /\ EndsWithStar(Trim(inputLines[1])) /\ StarCount(inputLines[1]) = 1
  /\ IsBlankLine(inputLines[2])
  /\ ~HasStar(inputLines[3])
  /\ parsed.players[1].isHighlighted
  /\ parsed.players[1].position = <<"Q">>
  /\ ~parsed.players[2].isHighlighted

\* ------------------------------------------------------------------
\* App (Controls.tsx 184-388)
\* ------------------------------------------------------------------

\* The three built-in rankings (./constants): two players each here.
SLEEPER_PLAYER_LIST == <<"1", SP, "a", SP, "Q", NL, "2", SP, "b", SP, "R">>
YAHOO_PLAYER_LIST == <<"1", SP, "b", SP, "R", NL, "2", SP, "a", SP, "Q">>
ESPN_PLAYER_LIST == <<"1", SP, "a", SP, "Q", NL, "2", SP, "c", SP, "T">>
\* Texts typed into the textarea. The players of SLEEPER_PLAYER_LIST with other
\* whitespace, a blank line, another position and a marker:
TextRespaced == <<SP, "1", SP, SP, "a", SP, "T", NL, NL, "2", SP, "b", SP, "R", SP, STAR>>
\* the same players in the other order:
TextReordered == <<"2", SP, "b", SP, "R", NL, "1", SP, "a", SP, "Q">>
\* a line ending in two markers:
TextTwoMarkers == <<"1", SP, "a", SP, "Q", SP, STAR, SP, STAR, NL, "2", SP, "b", SP, "R">>
\* markers attached to the position, one and two of them:
TextAttachedMarkers == <<"1", SP, "a", SP, "Q", STAR, NL, "2", SP, "b", SP, "R", STAR, STAR>>
\* a second line of two tokens:
TextShortLine == <<"1", SP, "a", SP, "Q", NL, "2", SP, "b">>
\* nothing:
TextEmpty == <<>>
\* one player whose rank is not its place in the list:
TextOtherRanks == <<"7", SP, "c", SP, "T">>
\* a rank written with a sign, above a line that starts with the same digits:
TextSignedRank == <<"-", "3", SP, "a", SP, "Q", NL, "3", SP, "b", SP, "R">>
\* one player whose name holds the separators of the list identifier:
TextSeparatorsInName == <<"1", SP, "a", ",", "2", "|", "b", SP, "Q">>
\* a line whose first token is not a number:
TextBadRank == <<"x", SP, "a", SP, "Q">>

EditTexts ==
  {TextRespaced, TextReordered, TextTwoMarkers, TextAttachedMarkers, TextShortLine,
   TextEmpty, TextOtherRanks, TextSignedRank, TextSeparatorsInName, TextBadRank}

TEAM_OPTIONS == {8, 10, 12, 14}
DefaultNumTeams == 10

\* The values the source buttons pass (DATA_SOURCES) and the values of the
\* DataSource type that handleDataSourceChange switches on.
DATA_SOURCES == {"Sleeper", "Yahoo", "ESPN", "Custom"}
DataSource == {"Sleeper PPR", "Yahoo Half", "ESPN Half", "Custom"}

\* const { players, error: parseError } = useMemo(() => parsePlayerText(rawText), [rawText])
players == parsedText.players
parseError == parsedText.error

PlayersOf(text) == parsePlayerText(text).players

\* const draftData = useMemo(...)
DraftDataOf(list, teams) ==
  IF Len(list) > 0 THEN generateSnakeDraft(list, teams) ELSE <<>>

draftData == DraftDataOf(players, numTeams)

\* Whether the effect keyed on playerListIdentifier runs when the players go
\* from playersBefore to playersAfter.
IdentifierChanged(playersBefore, playersAfter) ==
  playerListIdentifier(playersAfter) # playerListIdentifier(playersBefore)

\* pickedPlayers once the effects have run: the effect keyed on
\* playerListIdentifier replaces it by an empty Set.
PickedAfterEffects(playersBefore, playersAfter, picked) ==
  IF IdentifierChanged(playersBefore, playersAfter) THEN <<>> ELSE picked

\* Variant of ErrorAfterEffects: the effect sets the error only when the
\* parse has one.
ErrorAfterEffects_OnlySets(parseErrorAfter) ==
  IF parseErrorAfter # NoError THEN parseErrorAfter ELSE error

\* error once the effects have run: the effect keyed on parseError (243-245)
\* calls setError(parseError) when parseError is another value than at the
\* render before.
ErrorAfterEffects(parseErrorAfter) ==
  IF parseErrorAfter # parseError THEN parseErrorAfter ELSE error

\* parsePlayerText is pure: its value on the texts the actions below offer
\* is computed once and looked up afterwards.
KnownTexts == EditTexts \cup {SLEEPER_PLAYER_LIST, YAHOO_PLAYER_LIST, ESPN_PLAYER_LIST}

ParsedKnownTexts == [text \in KnownTexts |-> parsePlayerText(text)]

\* The state once a handler's updates have been rendered and every effect
\* whose dependencies changed has run. pickedWasSet: the handler called
\* setPickedPlayers (always with a new Set object).
Settle(text, source, teams, picked, pickedWasSet) ==
  LET memo == IF text = rawText THEN parsedText
              ELSE IF text \in KnownTexts THEN ParsedKnownTexts[text]
              ELSE parsePlayerText(text)
      pickedFinal == PickedAfterEffects(players, memo.players, picked)
  IN /\ rawText' = text
     /\ parsedText' = memo
     /\ dataSource' = source
     /\ numTeams' = teams
     /\ pickedPlayers' = pickedFinal
     /\ error' = ErrorAfterEffects(memo.error)
     /\ localStorage' =
          [customPlayerRankings |->
             IF source = "Custom" /\ (text # rawText \/ source # dataSource)
               THEN Item(text) ELSE localStorage.customPlayerRankings,
           draftedPlayerRanks |->
             IF pickedWasSet \/ IdentifierChanged(players, memo.players)
               THEN Item(JsonStringify(pickedFinal)) ELSE localStorage.draftedPlayerRanks,
           numTeams |->
             IF teams # numTeams
               THEN Item(IntToString(teams)) ELSE localStorage.numTeams]

\* Variant of InitialNumTeams: any saved number is taken.
InitialNumTeams_Unchecked ==
  LET saved == localStorage.numTeams
  IN IF Truthy(saved) /\ ~ParseInt(saved.value).isNaN
       THEN ParseInt(saved.value).value
       ELSE DefaultNumTeams

\* useState initializers (185-217)
InitialNumTeams ==
  LET saved == localStorage.numTeams
  IN IF Truthy(saved) /\ ~ParseInt(saved.value).isNaN
          /\ ParseInt(saved.value).value \in TEAM_OPTIONS
       THEN ParseInt(saved.value).value
       ELSE DefaultNumTeams

InitialPickedPlayers ==
  LET saved == localStorage.draftedPlayerRanks
  IN IF Truthy(saved) /\ JsonParse(saved.value).ok
       THEN SetFrom(JsonParse(saved.value).value, <<>>)
       ELSE <<>>

InitialRawText ==
  IF Truthy(localStorage.customPlayerRankings)
    THEN localStorage.customPlayerRankings.value ELSE SLEEPER_PLAYER_LIST

InitialDataSource ==
  IF Truthy(localStorage.customPlayerRankings) THEN "Custom" ELSE "Sleeper PPR"

\* The effect keyed on playerListIdentifier (248-250): whatever the Set held,
\* it is replaced by an empty one.
ResetPickedPlayers(picked) == <<>>

\* The page is loaded: the initializers, the first render, then every effect
\* once, the one keyed on playerListIdentifier included, which sets
\* pickedPlayers to an empty Set; the effect keyed on pickedPlayers then runs
\* a second time.
Mount ==
  /\ phase = "closed"
  /\ phase' = "running"
  /\ lastOp' = "mount"
  /\ lastCard' = NoCard
  /\ rawText' = InitialRawText
  /\ dataSource' = InitialDataSource
  /\ numTeams' = InitialNumTeams
  /\ parsedText' = parsePlayerText(InitialRawText)
  /\ pickedPlayers' = ResetPickedPlayers(InitialPickedPlayers)
  /\ error' = parsedText'.error
  /\ localStorage' =
       [customPlayerRankings |->
          IF InitialDataSource = "Custom"
            THEN Item(InitialRawText) ELSE localStorage.customPlayerRankings,
        draftedPlayerRanks |-> Item(JsonStringify(pickedPlayers')),
        numTeams |-> Item(IntToString(InitialNumTeams))]
  /\ UNCHANGED <<boardVariant, boardVars, parserVars>>

\* The page is left. The entries stay; the state variables keep the values
\* the session ended with, for comparison with the next session.
Close ==
  /\ phase = "running"
  /\ phase' = "closed"
  /\ lastOp' = "close"
  /\ lastCard' = NoCard
  /\ UNCHANGED <<rawText, numTeams, dataSource, pickedPlayers, error, parsedText,
                 localStorage, boardVariant, boardVars, parserVars>>

\* handleRawTextChange(text), 260-265: the source and text after it.
SourceAfterTextChange == IF dataSource # "Custom" THEN "Custom" ELSE dataSource

\* The textarea's onChange: the text differs from the one shown.
EditText ==
  \E text \in EditTexts :
    /\ phase = "running"
    /\ text # rawText
    /\ lastOp' = "edit"
    /\ lastCard' = NoCard
    /\ Settle(text, SourceAfterTextChange, numTeams, pickedPlayers, FALSE)
    /\ UNCHANGED <<phase, boardVariant, boardVars, parserVars>>

\* Variant of TextAfterSourceChange: no button replaces the text.
TextAfterSourceChange_KeepsText(source) == rawText

\* handleDataSourceChange(source), 267-283
TextAfterSourceChange(source) ==
  CASE source = "Sleeper PPR" -> SLEEPER_PLAYER_LIST
    [] source = "Yahoo Half" -> YAHOO_PLAYER_LIST
    [] source = "ESPN Half" -> ESPN_PLAYER_LIST
    [] source = "Custom" ->
         (IF Truthy(localStorage.customPlayerRankings)
            THEN localStorage.customPlayerRankings.value ELSE <<>>)
    [] OTHER -> rawText

SelectSource ==
  \E source \in DATA_SOURCES :
    /\ phase = "running"
    /\ lastOp' = "source"
    /\ lastCard' = NoCard
    /\ Settle(TextAfterSourceChange(source), source, numTeams, pickedPlayers, FALSE)
    /\ UNCHANGED <<phase, boardVariant, boardVars, parserVars>>

\* Variant of SelectTeams: the picked set is emptied as well.
SelectTeams_ClearsPicked ==
  \E teams \in TEAM_OPTIONS :
    /\ phase = "running"
    /\ lastOp' = "teams"
    /\ lastCard' = NoCard
    /\ Settle(rawText, dataSource, teams, <<>>, TRUE)
    /\ UNCHANGED <<phase, boardVariant, boardVars, parserVars>>

\* A team button: setNumTeams(teams)
SelectTeams ==
  \E teams \in TEAM_OPTIONS :
    /\ phase = "running"
    /\ lastOp' = "teams"
    /\ lastCard' = NoCard
    /\ Settle(rawText, dataSource, teams, pickedPlayers, FALSE)
    /\ UNCHANGED <<phase, boardVariant, boardVars, parserVars>>

\* Variant of ResetDraft: the team count goes back to its default as well.
ResetDraft_ResetsTeams ==
  /\ phase = "running"
  /\ lastOp' = "reset"
  /\ lastCard' = NoCard
  /\ Settle(rawText, dataSource, DefaultNumTeams, <<>>, TRUE)
  /\ UNCHANGED <<phase, boardVariant, boardVars, parserVars>>

\* handleResetDraft, 328-330
ResetDraft ==
  /\ phase = "running"
  /\ lastOp' = "reset"
  /\ lastCard' = NoCard
  /\ Settle(rawText, dataSource, numTeams, <<>>, TRUE)
  /\ UNCHANGED <<phase, boardVariant, boardVars, parserVars>>

\* The cells that show a PlayerCard, and the number a card passes to its
\* handlers: player.rank (DraftBoard.tsx) or overallPick (the DraftBoard of
\* types.ts).
PlayerCards == {c \in BoardCells(draftData, numTeams) : c.player # EmptySlot}

CardArgument(card) ==
  IF boardVariant = "rank" THEN card.player.rank ELSE card.overallPick

\* The isPicked prop of a card: pickedPlayers.has(player.rank) (DraftBoard.tsx)
\* or pickedPlayers.has(overallPick) (the DraftBoard of types.ts).
IsPicked(card) == SetHas(pickedPlayers, CardArgument(card))

\* Variant of TogglePicked: a rank is added and never removed.
TogglePicked_OnlyAdds(set, playerRank) == SetAdd(set, playerRank)

\* handleTogglePlayerPicked(playerRank), 285-295
TogglePicked(set, playerRank) ==
  IF SetHas(set, playerRank) THEN SetDelete(set, playerRank) ELSE SetAdd(set, playerRank)

ClickCard ==
  \E card \in PlayerCards :
    /\ phase = "running"
    /\ lastOp' = "togglePicked"
    /\ lastCard' = card
    /\ Settle(rawText, dataSource, numTeams,
              TogglePicked(pickedPlayers, CardArgument(card)), TRUE)
    /\ UNCHANGED <<phase, boardVariant, boardVars, parserVars>>

\* handleTogglePlayerHighlight(playerRank), 297-316.
\* line.trim().replace(/\s*\*\s*$/, '')
WithoutTrailingMarker(line) ==
  IF EndsWithStar(Trim(line)) THEN TrimEnd(DropLast(Trim(line))) ELSE Trim(line)

\* The findIndex callback.
LineStartsWithRank(line, playerRank) ==
  LET rankMatch == DigitPrefix(WithoutTrailingMarker(line))
  IN rankMatch # <<>> /\ ParseInt(rankMatch).value = playerRank

\* lines.findIndex(...), 1-based here; 0 stands for -1.
PlayerLineIndex(lines, playerRank) ==
  LET found == {i \in 1..Len(lines) : LineStartsWithRank(lines[i], playerRank)}
  IN IF found = {} THEN 0 ELSE CHOOSE i \in found : \A j \in found : i <= j

\* Variant of ToggledLine: a marker is added whether or not there is one.
ToggledLine_AlwaysAdds(line) == Trim(line) \o <<SP, STAR>>

\* The line with its marker toggled, 308-312.
ToggledLine(line) ==
  IF EndsWithStar(Trim(line)) THEN Trim(DropLast(Trim(line)))
  ELSE Trim(line) \o <<SP, STAR>>

\* newRawText, or the text as it is when no line is found.
HighlightToggledText(text, playerRank) ==
  LET lines == SplitLines(text)
      playerLineIndex == PlayerLineIndex(lines, playerRank)
  IN IF playerLineIndex = 0 THEN text
     ELSE JoinWith([lines EXCEPT ![playerLineIndex] = ToggledLine(lines[playerLineIndex])],
                   <<NL>>)

RightClickCard ==
  \E card \in PlayerCards :
    /\ phase = "running"
    /\ lastOp' = "toggleHighlight"
    /\ lastCard' = card
    /\ IF PlayerLineIndex(SplitLines(rawText), CardArgument(card)) # 0
         THEN Settle(HighlightToggledText(rawText, CardArgument(card)),
                     SourceAfterTextChange, numTeams, pickedPlayers, FALSE)
         ELSE UNCHANGED <<rawText, dataSource, numTeams, pickedPlayers, error, parsedText,
                          localStorage>>
    /\ UNCHANGED <<phase, boardVariant, boardVars, parserVars>>

\* Variant of MarkedUntil: the player of the given rank is left out.
RECURSIVE MarkedUntil_Below(_, _, _)
MarkedUntil_Below(list, playerRank, newPicked) ==
  IF list = <<>> THEN newPicked
  ELSE MarkedUntil_Below(Tail(list), playerRank,
                         IF Head(list).rank < playerRank
                           THEN SetAdd(newPicked, Head(list).rank) ELSE newPicked)

\* handleMarkUntilPicked(playerRank), 318-326
RECURSIVE MarkedUntil(_, _, _)
MarkedUntil(list, playerRank, newPicked) ==
  IF list = <<>> THEN newPicked
  ELSE MarkedUntil(Tail(list), playerRank,
                   IF Head(list).rank <= playerRank
                     THEN SetAdd(newPicked, Head(list).rank) ELSE newPicked)

MiddleClickCard ==
  \E card \in PlayerCards :
    /\ phase = "running"
    /\ lastOp' = "markUntil"
    /\ lastCard' = card
    /\ Settle(rawText, dataSource, numTeams,
              MarkedUntil(players, CardArgument(card), <<>>), TRUE)
    /\ UNCHANGED <<phase, boardVariant, boardVars, parserVars>>

\* What the numTeams entry may hold before the page is first loaded: nothing,
\* a count the page writes, or a text it never writes.
StoredTeamCounts ==
  {NoItem, Item(<<"1", "4">>), Item(<<"9">>), Item(<<"x">>), Item(<<"1", "2", "a">>),
   Item(<<>>)}

Init ==
  /\ phase = "closed"
  /\ rawText = <<>>
  /\ numTeams = DefaultNumTeams
  /\ dataSource = "Custom"
  /\ pickedPlayers = <<>>
  /\ error = NoError
  /\ parsedText = [players |-> <<>>, error |-> NoError]
  /\ localStorage \in [customPlayerRankings : {NoItem}, draftedPlayerRanks : {NoItem},
                       numTeams : StoredTeamCounts]
  /\ boardVariant \in {"rank", "overallPick"}
  /\ lastOp = "none"
  /\ lastCard = NoCard
  /\ BoardIdle
  /\ ParserIdle

Next ==
  \/ Mount
  \/ Close
  \/ EditText
  \/ SelectSource
  \/ SelectTeams
  \/ ResetDraft
  \/ ClickCard
  \/ RightClickCard
  \/ MiddleClickCard

Spec == Init /\ [][Next]_vars

\* ------------------------------------------------------------------
\* The picked set across text changes and reloads
\* ------------------------------------------------------------------

\* The list-identity string of a player list: the entries rank|name, in list
\* order, separated by commas.
ListIdentity(list) ==
  JoinWith([i \in 1..Len(list) |-> IntToString(list[i].rank) \o <<"|">> \o list[i].name],
           <<",">>)

\* The (rank, name) pairs of a player list, order and repetition put aside.
PairSet(list) == {<<list[i].rank, list[i].name>> : i \in 1..Len(list)}

Ranks(list) == {list[i].rank : i \in 1..Len(list)}

\* A step of the running page that replaces the raw text.
TextReplaced == phase = "running" /\ phase' = "running" /\ rawText' # rawText

\* C4: Toggle-highlight(rank), for a text that parses and a rank in it, leaves
\* the list-identity string and the picked set as they were, whatever the
\* form of the line, lines ending in more than one `*` included.
C4_ToggleKeepsIdentity ==
  [][(/\ TextReplaced
      /\ lastOp' = "toggleHighlight"
      /\ parsePlayerText(rawText).error = NoError
      /\ \E rank \in Ranks(PlayersOf(rawText)) :
           rawText' = HighlightToggledText(rawText, rank))
       => (/\ ListIdentity(PlayersOf(rawText')) = ListIdentity(PlayersOf(rawText))
           /\ Members(pickedPlayers') = Members(pickedPlayers))]_vars

\* C5 as stated: when the raw text is replaced, the picked set is cleared if
\* the set of (rank, name) pairs differs and kept if it is the same set,
\* line order put aside.
C5_ResetOnPairSetChange ==
  [][TextReplaced =>
       IF PairSet(PlayersOf(rawText')) # PairSet(PlayersOf(rawText))
         THEN pickedPlayers' = <<>>
         ELSE pickedPlayers' = pickedPlayers]_vars

\* C5, amended: when the raw text is replaced, the picked set is cleared if
\* the list-identity string differs from the one before and kept unchanged if
\* it is the same string, as it is when only markers, whitespace, blank lines
\* or positions differ.
C5_ResetOnIdentityChange ==
  [][TextReplaced =>
       IF ListIdentity(PlayersOf(rawText')) # ListIdentity(PlayersOf(rawText))
         THEN pickedPlayers' = <<>>
         ELSE pickedPlayers' = pickedPlayers]_vars

\* Picks that are still there after the text was retyped with other
\* whitespace, another position and a marker.
C5_Witness ==
  /\ phase = "running"
  /\ lastOp = "edit"
  /\ rawText = TextRespaced
  /\ Members(pickedPlayers) = {1, 2}
  /\ localStorage.draftedPlayerRanks = Item(JsonStringify(pickedPlayers))

\* C6: a text change that makes parsing fail shows the error and leaves the
\* board and the picked set as they were.
C6_ParseFailureKeepsState ==
  [][(TextReplaced /\ parsePlayerText(rawText').error # NoError)
       => (/\ error' # NoError
           /\ draftData' = draftData
           /\ pickedPlayers' = pickedPlayers)]_vars

\* C7: the page loaded again with the drafted ranks of the last session
\* persisted and the same raw text has the picked set of that session, and the
\* entry still encodes it.
C7_PickedSurvivesReload ==
  [][(/\ phase = "closed" /\ lastOp = "close"
      /\ phase' = "running"
      /\ localStorage.draftedPlayerRanks = Item(JsonStringify(pickedPlayers))
      /\ rawText' = rawText)
       => (/\ Members(pickedPlayers') = Members(pickedPlayers)
           /\ localStorage'.draftedPlayerRanks.present
           /\ Members(JsonParse(localStorage'.draftedPlayerRanks.value).value)
                = Members(pickedPlayers))]_vars

\* ------------------------------------------------------------------
\* The data-source mode
\* ------------------------------------------------------------------

\* The canonical text of a preset, under the name on its button or the name
\* of its DataSource value.
PresetText(source) ==
  CASE source \in {"Sleeper", "Sleeper PPR"} -> SLEEPER_PLAYER_LIST
    [] source \in {"Yahoo", "Yahoo Half"} -> YAHOO_PLAYER_LIST
    [] source \in {"ESPN", "ESPN Half"} -> ESPN_PLAYER_LIST

\* A step of the running page.
UserStep == phase = "running" /\ phase' = "running"

\* C12: a source button moves the mode to the state it names and, for a
\* preset, makes the raw text that preset's canonical text; a manual edit
\* leaves the mode Custom and the raw text the edited text; toggle-picked,
\* toggle-highlight, mark-until-picked, reset and a team-count change leave
\* the mode as it was.
C12_ModeMachine ==
  [][UserStep =>
       CASE lastOp' = "source" ->
              /\ dataSource' \in DATA_SOURCES \cup DataSource
              /\ dataSource' # "Custom" => rawText' = PresetText(dataSource')
         [] lastOp' = "edit" -> dataSource' = "Custom" /\ rawText' \in EditTexts
         [] OTHER -> dataSource' = dataSource]_vars

\* C13: the Custom button makes the raw text the persisted custom-rankings
\* text, or the empty text when there is no such entry, and the mode Custom.
\* The entry is the raw text of the last time the mode was Custom: it equals
\* the raw text whenever the mode is Custom and no step changes it otherwise.
C13_CustomRestoresSaved ==
  [][/\ (UserStep /\ lastOp' = "source" /\ dataSource' = "Custom") =>
          rawText' = (IF localStorage.customPlayerRankings.present
                        THEN localStorage.customPlayerRankings.value ELSE <<>>)
     /\ dataSource' = "Custom" => localStorage'.customPlayerRankings = Item(rawText')
     /\ dataSource' # "Custom" =>
          localStorage'.customPlayerRankings = localStorage.customPlayerRankings]_vars

\* The Custom button pressed with two players shown: the text is empty, as
\* when nothing had been saved, and the entry now holds it.
C13_Witness ==
  /\ phase = "running"
  /\ lastOp = "source"
  /\ dataSource = "Custom"
  /\ rawText = <<>>
  /\ players = <<>>
  /\ localStorage.customPlayerRankings = Item(<<>>)

\* ------------------------------------------------------------------
\* The handlers of a card's pointer events
\* ------------------------------------------------------------------

\* The number the card of the last pointer event passed to its handler.
LastArgument == CardArgument(lastCard)

\* C14: Mark-until-picked(rank) replaces the picked set, whatever it was, by
\* the ranks of the current players that are <= rank, by rank value and not by
\* place in the list.
C14_MarkUntilReplaces ==
  [][(UserStep /\ lastOp' = "markUntil") =>
       Members(pickedPlayers') = {r \in Ranks(players) : r <= LastArgument'}]_vars

\* Mark-until-picked(1) on the list of ranks 2, 1: the player of rank 1, the
\* second of the list, is the only one picked.
C14_Witness ==
  /\ phase = "running"
  /\ lastOp = "markUntil"
  /\ LastArgument = 1
  /\ rawText = TextReordered
  /\ players[1].rank = 2 /\ players[2].rank = 1
  /\ pickedPlayers = <<1>>

\* The line of the raw text that the player at 1-based list position p was
\* parsed from: the p-th line that is not blank.
PlayerLineAt(lines, p) ==
  LET nonBlank == {i \in 1..Len(lines) : ~IsBlankLine(lines[i])}
  IN CHOOSE i \in nonBlank : Cardinality({j \in nonBlank : j <= i}) = p

\* The text with the marker of that line toggled.
TextWithLineToggled(text, p) ==
  LET lines == SplitLines(text)
      k == PlayerLineAt(lines, p)
  IN TextOf([lines EXCEPT ![k] = ToggledLine(lines[k])])

\* C15: a card is shown drafted exactly when the rank of its player is in the
\* picked set; a primary click flips the membership of that rank and of no
\* other, a secondary click toggles the marker of that player's line, and a
\* middle click picks exactly the players whose rank is at most that
\* player's, also when ranks are not the places in the list.
C15_PointerTargetsPlayer ==
  /\ [](phase = "running" =>
          \A card \in PlayerCards :
            IsPicked(card) <=> card.player.rank \in Members(pickedPlayers))
  /\ [][UserStep =>
          LET rank == lastCard'.player.rank
          IN CASE lastOp' = "togglePicked" ->
                    Members(pickedPlayers') =
                      (Members(pickedPlayers) \ {rank}) \cup ({rank} \ Members(pickedPlayers))
               [] lastOp' = "toggleHighlight" ->
                    rawText' = TextWithLineToggled(rawText, lastCard'.overallPick)
               [] lastOp' = "markUntil" ->
                    Members(pickedPlayers') = {r \in Ranks(players) : r <= rank}
               [] OTHER -> TRUE]_vars

\* The set with the membership of x flipped.
Flipped(set, x) == (set \ {x}) \cup ({x} \ set)

\* C16: Toggle-picked(rank) removes the rank from the picked set if it was
\* there and adds it otherwise; the membership of every other rank, the raw
\* text, the mode, the team count and the error stay as they were, and a
\* second Toggle-picked(rank) gives back the original picked set.
C16_TogglePickedFlips ==
  [][(UserStep /\ lastOp' = "togglePicked") =>
       /\ Members(pickedPlayers') = Flipped(Members(pickedPlayers), LastArgument')
       /\ rawText' = rawText
       /\ dataSource' = dataSource
       /\ numTeams' = numTeams
       /\ error' = error
       /\ Members(TogglePicked(pickedPlayers', LastArgument')) = Members(pickedPlayers)]_vars

\* Toggle-picked(1) has removed rank 1 from a picked set that also holds 2.
C16_Witness ==
  /\ phase = "running"
  /\ lastOp = "togglePicked"
  /\ LastArgument = 1
  /\ Members(pickedPlayers) = {2}
  /\ localStorage.draftedPlayerRanks = Item(JsonStringify(pickedPlayers))

\* C17: Toggle-picked(rank) with a rank that no current player has leaves the
\* picked set as it was, and Mark-until-picked picks no rank that no current
\* player has.
C17_AbsentRanksInert ==
  [][UserStep =>
       /\ (lastOp' = "togglePicked" /\ LastArgument' \notin Ranks(players)) =>
            Members(pickedPlayers') = Members(pickedPlayers)
       /\ lastOp' = "markUntil" => Members(pickedPlayers') \subseteq Ranks(players)]_vars

\* ------------------------------------------------------------------
\* Reset
\* ------------------------------------------------------------------

\* C18: Reset empties the picked set and leaves the raw text, the parsed
\* players with their highlight flags, the board, the team count, the mode,
\* the parse error and the persisted custom-rankings and team-count entries
\* as they were.
C18_ResetFrame ==
  [][(UserStep /\ lastOp' = "reset") =>
       /\ pickedPlayers' = <<>>
       /\ rawText' = rawText
       /\ players' = players
       /\ draftData' = draftData
       /\ numTeams' = numTeams
       /\ dataSource' = dataSource
       /\ error' = error
       /\ parseError' = parseError
       /\ localStorage'.customPlayerRankings = localStorage.customPlayerRankings
       /\ localStorage'.numTeams = localStorage.numTeams]_vars

\* Reset on a custom list with a highlighted player and a team count that is
\* not the default.
C18_Witness ==
  /\ phase = "running"
  /\ lastOp = "reset"
  /\ pickedPlayers = <<>>
  /\ localStorage.draftedPlayerRanks = Item(JsonStringify(<<>>))
  /\ dataSource = "Custom"
  /\ rawText = TextRespaced
  /\ players[2].isHighlighted
  /\ numTeams = 12
  /\ localStorage.customPlayerRankings = Item(TextRespaced)

\* ------------------------------------------------------------------
\* Toggle-highlight and the lines of the raw text
\* ------------------------------------------------------------------

\* The leading integer of a line: the decimal digits its trimmed text starts
\* with, a trailing marker put aside; none when it starts with no digit.
LeadingDigitCount(line) ==
  LET t == WithoutMarker(line)
      others == {i \in 1..Len(t) : t[i] \notin Digits}
  IN IF others = {} THEN Len(t)
     ELSE (CHOOSE i \in others : \A j \in others : i <= j) - 1

HasLeadingInteger(line, rank) ==
  /\ LeadingDigitCount(line) > 0
  /\ DigitsValue(SubSeq(WithoutMarker(line), 1, LeadingDigitCount(line)), 0) = rank

LinesWithLeadingInteger(lines, rank) ==
  {i \in 1..Len(lines) : HasLeadingInteger(lines[i], rank)}

C20_StartupSource ==
  [][(phase = "closed" /\ phase' = "running") =>
       IF localStorage.customPlayerRankings.present
         THEN /\ dataSource' = "Custom"
              /\ rawText' = localStorage.customPlayerRankings.value
         ELSE /\ dataSource' = "Sleeper PPR"
              /\ rawText' = SLEEPER_PLAYER_LIST]_vars

\* ------------------------------------------------------------------
\* The persisted entries and the state
\* ------------------------------------------------------------------

\* C21: once an action has settled, the team-count entry is the team count,
\* the drafted-ranks entry decodes to exactly the picked set and, in mode
\* Custom, the custom-rankings entry is the raw text; in a preset mode only
\* an action that moves the mode to Custom changes the custom-rankings entry.
C21_StoreMirrorsState ==
  /\ [](phase = "running" =>
          /\ localStorage.numTeams = Item(IntToString(numTeams))
          /\ localStorage.draftedPlayerRanks.present
          /\ JsonParse(localStorage.draftedPlayerRanks.value).ok
          /\ Members(JsonParse(localStorage.draftedPlayerRanks.value).value)
               = Members(pickedPlayers)
          /\ dataSource = "Custom" => localStorage.customPlayerRankings = Item(rawText))
  /\ [][(UserStep /\ dataSource # "Custom" /\ dataSource' # "Custom") =>
          localStorage'.customPlayerRankings = localStorage.customPlayerRankings]_vars

\* A custom list with both players picked and 14 teams, all three entries
\* written.
C21_Witness ==
  /\ phase = "running"
  /\ dataSource = "Custom"
  /\ rawText = TextReordered
  /\ Members(pickedPlayers) = {1, 2}
  /\ numTeams = 14
  /\ localStorage.numTeams = Item(<<"1", "4">>)
  /\ localStorage.draftedPlayerRanks.value \in
       {<<"[", "1", ",", "2", "]">>, <<"[", "2", ",", "1", "]">>}
  /\ localStorage.customPlayerRankings = Item(TextReordered)

\* ------------------------------------------------------------------
\* The team count
\* ------------------------------------------------------------------

\* The decimal writing of an allowed team count.
IsAllowedCountText(text) == \E n \in TEAM_OPTIONS : text = IntToString(n)

\* The integer a text starts with, as parseInt reads it: whitespace, an
\* optional sign, then decimal digits; what follows the digits is not read.
\* none is TRUE when no digit stands there.
StartingInteger(text) ==
  LET t == TrimStart(text)
      signed == t # <<>> /\ t[1] \in {"-", "+"}
      body == IF signed THEN SubSeq(t, 2, Len(t)) ELSE t
      others == {i \in 1..Len(body) : body[i] \notin Digits}
      count == IF others = {} THEN Len(body)
               ELSE (CHOOSE i \in others : \A j \in others : i <= j) - 1
      magnitude == DigitsValue(SubSeq(body, 1, count), 0)
  IN [none |-> count = 0,
      value |-> IF signed /\ t[1] = "-" THEN 0 - magnitude ELSE magnitude]

C23_PickedAreCurrentRanks ==
  phase = "running" => Members(pickedPlayers) \subseteq Ranks(players)

\* ------------------------------------------------------------------
\* A change of the team count
\* ------------------------------------------------------------------

\* The players of a board read in the order of the pick numbers shown.
PlayersInPickOrder(boardData, teams) ==
  LET cards == {c \in BoardCells(boardData, teams) : c.player # EmptySlot}
  IN [n \in 1..Cardinality(cards) |-> (CHOOSE c \in cards : c.overallPick = n).player]

\* C24: a change of the team count to another allowed value leaves the picked
\* set, the raw text, the parsed players, the mode and the parse error as they
\* were, and the new board, of as many teams as the new count, holds the same
\* players in the same pick order.
C24_TeamChangeFrame ==
  [][(UserStep /\ lastOp' = "teams" /\ numTeams' # numTeams) =>
       /\ numTeams' \in TEAM_OPTIONS
       /\ pickedPlayers' = pickedPlayers
       /\ rawText' = rawText
       /\ players' = players
       /\ dataSource' = dataSource
       /\ parseError' = parseError
       /\ error' = error
       /\ PlayersInPickOrder(draftData', numTeams') = players
       /\ Len(draftData') = (IF players = <<>> THEN 0 ELSE numTeams')]_vars

\* Eight teams chosen with both players of a custom list picked.
C24_Witness ==
  /\ phase = "running"
  /\ lastOp = "teams"
  /\ numTeams = 8
  /\ localStorage.numTeams = Item(<<"8">>)
  /\ rawText = TextReordered
  /\ Len(pickedPlayers) = 2
  /\ Len(draftData) = 8
  /\ PlayersInPickOrder(draftData, numTeams) = players

\* ------------------------------------------------------------------
\* Toggle-highlight in a preset mode
\* ------------------------------------------------------------------

\* The text with the marker toggled on its first line whose leading integer
\* is rank, as a set: empty when the text has no such line.
TextToggledAtRank(text, rank) ==
  LET lines == SplitLines(text)
      found == LinesWithLeadingInteger(lines, rank)
  IN IF found = {} THEN {}
     ELSE LET k == CHOOSE i \in found : \A j \in found : i <= j
          IN {TextOf([lines EXCEPT ![k] = ToggledLine(lines[k])])}

\* The same for the canonical text of a preset.
PresetTextToggled(source, rank) == TextToggledAtRank(PresetText(source), rank)

\* C25: Toggle-highlight(rank) in a preset mode, when a line matches, makes
\* the mode Custom and the custom-rankings entry the preset text with that
\* one marker toggled, whatever the entry held; the Custom button would then
\* bring back that text.
C25_TogglePresetOverwritesCustom ==
  [][(/\ UserStep
      /\ lastOp' = "toggleHighlight"
      /\ dataSource # "Custom"
      /\ LinesWithLeadingInteger(SplitLines(rawText), LastArgument') # {})
       => (/\ dataSource' = "Custom"
           /\ localStorage'.customPlayerRankings.present
           /\ localStorage'.customPlayerRankings.value
                \in PresetTextToggled(dataSource, LastArgument')
           /\ TextAfterSourceChange("Custom")' = localStorage'.customPlayerRankings.value)]_vars

\* ------------------------------------------------------------------
\* The displayed error
\* ------------------------------------------------------------------

\* C26: in every settled state the displayed error is the result of parsing
\* the current raw text: there is one exactly when that parse fails (the text
\* has a line that is not blank and gives no players), it is the error of
\* that text and of no earlier one, and it is gone as soon as the text parses
\* again.
C26_ErrorTracksText ==
  phase = "running" =>
    /\ error = parsePlayerText(rawText).error
    /\ (error # NoError <=> parsePlayerText(rawText).players = <<>> /\ ~IsBlankLine(rawText))

\* The text has been edited into one whose first line has no number: the
\* error names that line.
C26_Witness ==
  /\ phase = "running"
  /\ lastOp = "edit"
  /\ rawText = TextBadRank
  /\ error = CouldNotParseError(TextBadRank)
  /\ players = <<>>

====
